---------------------------- MODULE Spec2Model ----------------------------
(***************************************************************************)
(* A model of the music-player client: the App component (session gate,   *)
(* library sync, like toggling, playlists, search, audio transport) and   *)
(* the dbService layer it calls.  Every remote call is a request that the  *)
(* persistence backend serves in one step and whose continuation the       *)
(* client runs in a later step, so that the await points of the source     *)
(* are the interleaving points of the model.                               *)
(***************************************************************************)
EXTENDS Integers, Sequences, FiniteSets, TLC

(***************************************************************************)
(* Bounds of the model.                                                    *)
(***************************************************************************)
NumUsers == 1
NumTracks == 5
NumLikeTracks == 3
MaxQueue == 3
MaxLikedRows == 4
MaxToggles == 2
MaxFetches == 1
MaxPlaylistCalls == 1
MaxPlaylistId == 2
MaxPlaylistSongs == 2
MaxSearches == 2
MaxSyncs == 2
NumAccounts == 2

Users == 1..NumUsers

(* Song objects.  Two objects are the same object when they are the same   *)
(* number; Url gives the url field, and the last object carries the url of *)
(* the first: the same track met twice (a search hit that is also in a     *)
(* playlist, a track added to a playlist twice).                           *)
Tracks == 1..NumTracks
LikeTracks == 1..NumLikeTracks

(* Song.url *)
Url(t) == IF t = NumTracks THEN 1 ELSE t

(* user === null, and the Supabase user objects App stores in `user`. *)
NoUser == [id |-> 0, confirmed |-> FALSE]
Sessions == {NoUser} \cup [id : Users, confirmed : BOOLEAN]

(* currentUser && currentUser.email_confirmed_at *)
IsVerified(u) == u.id # 0 /\ u.confirmed

VARIABLES
    user,            \* App state: user
    profile,         \* App state: profile (0 = null, else the profile id)
    likedSongs,      \* App state: likedSongs
    playlists,       \* App state: playlists, records [id, name, songs]
    authModalOpen,   \* App state: authModalOpen
    lastAlert,       \* the last alert() shown ("none" before any)
    sessionLoaded,   \* whether getSession().then has run
    remoteProfiles,  \* table profiles: the ids that have a row
    remoteLiked,     \* table liked_songs: rows [uid, song] in id order
    remotePlaylists, \* table user_playlists joined with playlist_songs
    nextPlaylistId,  \* next serial id of user_playlists
    fetches,         \* fetchData calls in flight
    toggles,         \* toggleLike calls in flight
    creates,         \* createNewPlaylist calls in flight
    deletes,         \* dbService.deletePlaylist calls in flight
    adds,            \* dbService.addSongToPlaylist calls in flight
    searchQuery,     \* App state: searchQuery
    searchResults,   \* App state: searchResults
    isSearching,     \* App state: isSearching
    searches,        \* performSearch calls in flight
    currentSong,     \* App state: currentSong (0 = null)
    isPlaying,       \* App state: isPlaying
    playlistQueue,   \* App state: playlistQueue
    progress,        \* App state: progress
    currentTime,     \* App state: currentTime
    duration,        \* App state: duration
    audioSrc,        \* audio element: the track its src streams (0 = none)
    audioState,      \* audio element: what it is doing
    audioTime,       \* audio element: currentTime
    audioDuration,   \* audio element: duration (0 = NaN, not known yet)
    startPending,    \* the effect's play() promise is pending
    staleRejected,   \* an aborted play() promise's catch has yet to run
    roundTrip,       \* history: the toggleLike calls made so far and the
                     \* liked songs before the first, for the round-trip law
    isSignUp,        \* AuthModal state: isSignUp
    loading,         \* AuthModal state: loading
    errorMsg,        \* AuthModal state: errorMsg ("" = none)
    rateLimitSeconds,\* AuthModal state: rateLimitSeconds
    authCall,        \* the handleAuth call in flight
    signUpHistory,   \* history: whether a sign-up has succeeded, and the
                     \* countdown ticks since the last one that did
    view,            \* App state: view
    currentPlaylistDetail \* App state: currentPlaylistDetail

libVars == <<user, profile, likedSongs, playlists, authModalOpen, lastAlert,
             sessionLoaded, remoteProfiles, remoteLiked, remotePlaylists,
             nextPlaylistId, fetches, toggles, creates, deletes, adds>>

(* The playlist calls in flight; sync and like toggling leave them alone. *)
plCalls == <<creates, deletes, adds>>

(* State of the other components; the library never touches it. *)
searchVars == <<searchQuery, searchResults, isSearching, searches>>

playerVars == <<currentSong, isPlaying, playlistQueue, progress, currentTime,
                duration, audioSrc, audioState, audioTime, audioDuration,
                startPending, staleRejected>>

(* State of AuthModal *)
modalVars == <<isSignUp, loading, errorMsg, rateLimitSeconds, authCall,
               signUpHistory>>

viewVars == <<view, currentPlaylistDetail>>

libAndPlayerVars == <<libVars, playerVars, roundTrip, modalVars, viewVars>>

libAndSearchVars == <<libVars, searchVars, roundTrip, modalVars, viewVars>>

nonLibVars == <<searchVars, playerVars, roundTrip, modalVars, viewVars>>

(* What AuthModal leaves alone: all but its own state, authModalOpen, the  *)
(* alerts and the profiles table.                                          *)
outsideModalVars == <<user, profile, likedSongs, playlists, sessionLoaded,
                      remoteLiked, remotePlaylists, nextPlaylistId, fetches,
                      toggles, plCalls, searchVars, playerVars, roundTrip,
                      viewVars>>

vars == <<libVars, plCalls, nonLibVars>>

(***************************************************************************)
(* Sequence helpers (Array.prototype.filter / map / reverse order).        *)
(***************************************************************************)
Reverse(s) == [i \in 1..Len(s) |-> s[Len(s) + 1 - i]]

MapSong(rows) == [i \in 1..Len(rows) |-> rows[i].song]

(* prev.filter(s => s.url !== song.url) *)
FilterOutUrl(list, t) == SelectSeq(list, LAMBDA s : Url(s) # Url(t))

(* likedSongs.some(s => s.url === song.url) *)
isLiked(t) == \E i \in 1..Len(likedSongs) : Url(likedSongs[i]) = Url(t)

(***************************************************************************)
(* The persistence backend's queries, as dbService issues them.            *)
(***************************************************************************)
(* from('liked_songs').select('song_data').eq('user_id', userId)           *)
(*   .order('id', {ascending: false}), then data.map(item => song_data)    *)
getLikedSongs(uid) ==
    Reverse(MapSong(SelectSeq(remoteLiked, LAMBDA r : r.uid = uid)))

(* liked_songs.id is a serial key of which only the order is observable:   *)
(* the table is kept in id order and the id of a row is its position.  An  *)
(* id a pending call holds follows its row, and is Gone once the row has   *)
(* been deleted.                                                           *)
Gone == -1

RemoveAt(s, k) == [j \in 1..(Len(s) - 1) |-> IF j < k THEN s[j] ELSE s[j + 1]]

IdAfterDelete(id, k) ==
    IF id = k THEN Gone ELSE IF id > k THEN id - 1 ELSE id

(* .select('id').eq('user_id', userId).contains('song_data', {url})        *)
MatchingLiked(uid, t) ==
    {k \in 1..Len(remoteLiked) :
        remoteLiked[k].uid = uid /\ Url(remoteLiked[k].song) = Url(t)}

(* .single(): the row when exactly one matches, otherwise data is null     *)
SingleLikedId(uid, t) ==
    LET m == MatchingLiked(uid, t)
    IN  IF Cardinality(m) = 1 THEN CHOOSE k \in m : TRUE ELSE 0

(* from('user_playlists').select(id, name, image, playlist_songs(...))     *)
(*   .eq('user_id', userId), mapped to {id, name, image, songs}            *)
getPlaylists(uid) ==
    LET rows == SelectSeq(remotePlaylists, LAMBDA r : r.uid = uid)
    IN  [i \in 1..Len(rows) |->
            [id |-> rows[i].id, name |-> rows[i].name, songs |-> rows[i].songs]]

(***************************************************************************)
(* In-flight calls.  res is "pending" while the request is at the backend, *)
(* then "ok" or "err".                                                     *)
(***************************************************************************)
IdleSearch == [pc |-> "idle", term |-> "", res |-> "none", songs |-> <<>>]

IdleFetch ==
    [pc |-> "idle", user |-> NoUser, res |-> "none", prof |-> 0,
     liked |-> <<>>, pls |-> <<>>]

IdleCreate == [pc |-> "idle", uid |-> 0, name |-> "", res |-> "none", id |-> 0]

IdleDelete == [pc |-> "idle", id |-> 0, res |-> "none"]

IdleAdd == [pc |-> "idle", id |-> 0, song |-> 0, res |-> "none"]

IdleToggle ==
    [pc |-> "idle", uid |-> 0, song |-> 0, res |-> "none", existing |-> 0]

FreeSlot(procs) ==
    CHOOSE i \in DOMAIN procs :
        procs[i].pc = "idle" /\ \A j \in DOMAIN procs : j < i => procs[j].pc # "idle"

HasFreeSlot(procs) == \E i \in DOMAIN procs : procs[i].pc = "idle"

InFlight(procs) == {i \in DOMAIN procs : procs[i].pc # "idle"}

(* fetchData up to its first await: the getProfile request goes out. *)
StartFetch(currentUser) ==
    [fetches EXCEPT ![FreeSlot(fetches)] =
        [IdleFetch EXCEPT !.pc = "getProfile", !.user = currentUser,
                          !.res = "pending"]]

InitSearch ==
    /\ searchQuery = ""
    /\ searchResults = <<>>
    /\ isSearching = FALSE
    /\ searches = [i \in 1..MaxSearches |-> IdleSearch]

InitPlayer ==
    /\ currentSong = 0
    /\ isPlaying = FALSE
    /\ playlistQueue = <<>>
    /\ progress = 0
    /\ currentTime = 0
    /\ duration = 0
    /\ audioSrc = 0
    /\ audioState = "empty"
    /\ audioTime = 0
    /\ audioDuration = 0
    /\ startPending = FALSE
    /\ staleRejected = FALSE

NoRoundTrip == [calls |-> 0, song |-> 0, before |-> <<>>]

IdleAuth == [pc |-> "idle", res |-> "none", session |-> FALSE]

(* currentPlaylistDetail === null.  Otherwise the object handed to         *)
(* openPlaylist: kind "liked" for {id: 'liked', ...}, "playlist" for an    *)
(* entry of playlists, with its id and its songs array.                    *)
NoDetail == [kind |-> "none", id |-> 0, songs |-> <<>>]

(* useState<ViewState>('home') and useState(null) *)
InitView ==
    /\ view = "home"
    /\ currentPlaylistDetail = NoDetail

(* AuthModal's useState initial values *)
InitModal ==
    /\ isSignUp = FALSE
    /\ loading = FALSE
    /\ errorMsg = ""
    /\ rateLimitSeconds = 0
    /\ authCall = IdleAuth
    /\ signUpHistory = [succeeded |-> FALSE, ticks |-> 0]

InitNoCalls ==
    /\ roundTrip = NoRoundTrip
    /\ InitModal
    /\ InitView
    /\ fetches = [i \in 1..MaxFetches |-> IdleFetch]
    /\ toggles = [i \in 1..MaxToggles |-> IdleToggle]
    /\ creates = [i \in 1..MaxPlaylistCalls |-> IdleCreate]
    /\ deletes = [i \in 1..MaxPlaylistCalls |-> IdleDelete]
    /\ adds = [i \in 1..MaxPlaylistCalls |-> IdleAdd]

(* The state after construction: the useState initial values, empty tables. *)
Init ==
    /\ user = NoUser
    /\ profile = 0
    /\ likedSongs = <<>>
    /\ playlists = <<>>
    /\ authModalOpen = FALSE
    /\ lastAlert = "none"
    /\ sessionLoaded = FALSE
    /\ remoteProfiles = {}
    /\ remoteLiked = <<>>
    /\ remotePlaylists = <<>>
    /\ nextPlaylistId = 1
    /\ InitNoCalls
    /\ InitSearch
    /\ InitPlayer

(* Liked-songs lists without a repeated track, as a table without          *)
(* duplicate rows returns them.                                            *)
LikedLists ==
    UNION {{L \in [1..n -> LikeTracks] :
                \A a, b \in 1..n : a # b => Url(L[a]) # Url(L[b])} :
           n \in 0..NumLikeTracks}

(* The state once user 1, verified, has signed in and the first sync has   *)
(* completed: the liked_songs rows of the user are L, newest first, and    *)
(* likedSongs shows them.                                                  *)
InitSynced ==
    /\ user = [id |-> 1, confirmed |-> TRUE]
    /\ profile = 1
    /\ \E L \in LikedLists :
          /\ likedSongs = L
          /\ remoteLiked = [k \in 1..Len(L) |->
                               [uid |-> 1, song |-> L[Len(L) + 1 - k]]]
    /\ playlists = <<>>
    /\ authModalOpen = FALSE
    /\ lastAlert = "none"
    /\ sessionLoaded = TRUE
    /\ remoteProfiles = {1}
    /\ remotePlaylists = <<>>
    /\ nextPlaylistId = 1
    /\ InitNoCalls
    /\ InitSearch
    /\ InitPlayer

(***************************************************************************)
(* SessionGate: the auth listener of App.                                  *)
(***************************************************************************)
(* supabase.auth.getSession().then(...) *)
GetSessionThen(session) ==
    /\ ~sessionLoaded
    /\ IsVerified(session) => HasFreeSlot(fetches)
    /\ sessionLoaded' = TRUE
    /\ user' = session
    /\ fetches' = IF IsVerified(session) THEN StartFetch(session) ELSE fetches
    /\ UNCHANGED <<profile, likedSongs, playlists, authModalOpen, lastAlert,
                   remoteProfiles, remoteLiked, remotePlaylists,
                   nextPlaylistId, toggles, plCalls, nonLibVars>>

(* OnAuthStateChange with an else branch that leaves the profile in place *)
OnAuthStateChange_KeepsProfile(session) ==
    /\ IsVerified(session) => HasFreeSlot(fetches)
    /\ user' = session
    /\ IF IsVerified(session)
       THEN /\ fetches' = StartFetch(session)
            /\ UNCHANGED <<likedSongs, playlists, profile>>
       ELSE /\ likedSongs' = <<>>
            /\ playlists' = <<>>
            /\ UNCHANGED <<profile, fetches>>
    /\ UNCHANGED <<authModalOpen, lastAlert, sessionLoaded, remoteProfiles,
                   remoteLiked, remotePlaylists, nextPlaylistId,
                   toggles, plCalls, nonLibVars>>

(* supabase.auth.onAuthStateChange((_event, session) => ...) *)
OnAuthStateChange(session) ==
    /\ IsVerified(session) => HasFreeSlot(fetches)
    /\ user' = session
    /\ IF IsVerified(session)
       THEN /\ fetches' = StartFetch(session)
            /\ UNCHANGED <<likedSongs, playlists, profile>>
       ELSE /\ likedSongs' = <<>>
            /\ playlists' = <<>>
            /\ profile' = 0
            /\ UNCHANGED fetches
    /\ UNCHANGED <<authModalOpen, lastAlert, sessionLoaded, remoteProfiles,
                   remoteLiked, remotePlaylists, nextPlaylistId,
                   toggles, plCalls, nonLibVars>>

(***************************************************************************)
(* LibraryStore.sync: fetchData.  Each await is a request served by the    *)
(* backend (Serve...) and a continuation run by the client (FetchAfter...). *)
(* A request that fails makes the awaited dbService call throw, which the  *)
(* catch of fetchData swallows: the call ends there.                       *)
(***************************************************************************)
EndFetch(i) == [fetches EXCEPT ![i] = IdleFetch]

(* dbService.getProfile: PGRST116 (no row) is let through as data = null *)
ServeGetProfile(i, ok) ==
    /\ fetches[i].pc = "getProfile" /\ fetches[i].res = "pending"
    /\ fetches' = [fetches EXCEPT
           ![i].res = IF ok THEN "ok" ELSE "err",
           ![i].prof = IF ok /\ fetches[i].user.id \in remoteProfiles
                       THEN fetches[i].user.id ELSE 0]
    /\ UNCHANGED <<user, profile, likedSongs, playlists, authModalOpen,
                   lastAlert, sessionLoaded, remoteProfiles, remoteLiked,
                   remotePlaylists, nextPlaylistId, toggles,
                   plCalls, nonLibVars>>

(* let prof = await getProfile; if (!prof) upsertProfile(newProfile) else  *)
(* setProfile(prof) and the getLikedSongs request                          *)
FetchAfterGetProfile(i) ==
    /\ fetches[i].pc = "getProfile" /\ fetches[i].res # "pending"
    /\ IF fetches[i].res = "err"
       THEN /\ fetches' = EndFetch(i)
            /\ UNCHANGED profile
       ELSE IF fetches[i].prof = 0
       THEN /\ fetches' = [fetches EXCEPT ![i].pc = "upsertProfile",
                                          ![i].res = "pending"]
            /\ UNCHANGED profile
       ELSE /\ profile' = fetches[i].prof
            /\ fetches' = [fetches EXCEPT ![i].pc = "getLikedSongs",
                                          ![i].res = "pending"]
    /\ UNCHANGED <<user, likedSongs, playlists, authModalOpen, lastAlert,
                   sessionLoaded, remoteProfiles, remoteLiked,
                   remotePlaylists, nextPlaylistId, toggles, plCalls, nonLibVars>>

(* dbService.upsertProfile *)
ServeUpsertProfile(i, ok) ==
    /\ fetches[i].pc = "upsertProfile" /\ fetches[i].res = "pending"
    /\ fetches' = [fetches EXCEPT ![i].res = IF ok THEN "ok" ELSE "err"]
    /\ remoteProfiles' = IF ok THEN remoteProfiles \cup {fetches[i].user.id}
                         ELSE remoteProfiles
    /\ UNCHANGED <<user, profile, likedSongs, playlists, authModalOpen,
                   lastAlert, sessionLoaded, remoteLiked,
                   remotePlaylists, nextPlaylistId, toggles, plCalls, nonLibVars>>

(* prof = newProfile; setProfile(prof); the getLikedSongs request *)
FetchAfterUpsertProfile(i) ==
    /\ fetches[i].pc = "upsertProfile" /\ fetches[i].res # "pending"
    /\ IF fetches[i].res = "err"
       THEN /\ fetches' = EndFetch(i)
            /\ UNCHANGED profile
       ELSE /\ profile' = fetches[i].user.id
            /\ fetches' = [fetches EXCEPT ![i].pc = "getLikedSongs",
                                          ![i].res = "pending"]
    /\ UNCHANGED <<user, likedSongs, playlists, authModalOpen, lastAlert,
                   sessionLoaded, remoteProfiles, remoteLiked,
                   remotePlaylists, nextPlaylistId, toggles, plCalls, nonLibVars>>

(* dbService.getLikedSongs *)
ServeGetLikedSongs(i, ok) ==
    /\ fetches[i].pc = "getLikedSongs" /\ fetches[i].res = "pending"
    /\ fetches' = [fetches EXCEPT
           ![i].res = IF ok THEN "ok" ELSE "err",
           ![i].liked = IF ok THEN getLikedSongs(fetches[i].user.id) ELSE <<>>]
    /\ UNCHANGED <<user, profile, likedSongs, playlists, authModalOpen,
                   lastAlert, sessionLoaded, remoteProfiles, remoteLiked,
                   remotePlaylists, nextPlaylistId, toggles,
                   plCalls, nonLibVars>>

(* setLikedSongs(liked); the getPlaylists request *)
FetchAfterGetLikedSongs(i) ==
    /\ fetches[i].pc = "getLikedSongs" /\ fetches[i].res # "pending"
    /\ IF fetches[i].res = "err"
       THEN /\ fetches' = EndFetch(i)
            /\ UNCHANGED likedSongs
       ELSE /\ likedSongs' = fetches[i].liked
            /\ fetches' = [fetches EXCEPT ![i].pc = "getPlaylists",
                                          ![i].res = "pending",
                                          ![i].liked = <<>>]
    /\ UNCHANGED <<user, profile, playlists, authModalOpen, lastAlert,
                   sessionLoaded, remoteProfiles, remoteLiked,
                   remotePlaylists, nextPlaylistId, toggles, plCalls, nonLibVars>>

(* dbService.getPlaylists *)
ServeGetPlaylists(i, ok) ==
    /\ fetches[i].pc = "getPlaylists" /\ fetches[i].res = "pending"
    /\ fetches' = [fetches EXCEPT
           ![i].res = IF ok THEN "ok" ELSE "err",
           ![i].pls = IF ok THEN getPlaylists(fetches[i].user.id) ELSE <<>>]
    /\ UNCHANGED <<user, profile, likedSongs, playlists, authModalOpen,
                   lastAlert, sessionLoaded, remoteProfiles, remoteLiked,
                   remotePlaylists, nextPlaylistId, toggles,
                   plCalls, nonLibVars>>

(* setPlaylists(pls): fetchData returns *)
FetchAfterGetPlaylists(i) ==
    /\ fetches[i].pc = "getPlaylists" /\ fetches[i].res # "pending"
    /\ playlists' = IF fetches[i].res = "ok" THEN fetches[i].pls ELSE playlists
    /\ fetches' = EndFetch(i)
    /\ UNCHANGED <<user, profile, likedSongs, authModalOpen, lastAlert,
                   sessionLoaded, remoteProfiles, remoteLiked,
                   remotePlaylists, nextPlaylistId, toggles, plCalls, nonLibVars>>

(***************************************************************************)
(* LibraryStore.toggleLike: App.toggleLike and dbService.toggleLikedSong.  *)
(***************************************************************************)
(* The guards of toggleLike, then toggleLikedSong up to its first await:   *)
(* the select request goes out.  (The history variable roundTrip is left   *)
(* to the caller: ToggleLikeClick, or the round trip below.)               *)
toggleLike(t) ==
    /\ IF user = NoUser
       THEN /\ authModalOpen' = TRUE
            /\ UNCHANGED <<lastAlert, toggles>>
       ELSE IF ~user.confirmed
       THEN /\ lastAlert' = "verifyLike"
            /\ UNCHANGED <<authModalOpen, toggles>>
       ELSE /\ HasFreeSlot(toggles)
            /\ Len(remoteLiked) + Cardinality(InFlight(toggles)) < MaxLikedRows
            /\ Len(likedSongs) + Cardinality(InFlight(toggles)) < MaxLikedRows
            /\ toggles' = [toggles EXCEPT ![FreeSlot(toggles)] =
                   [pc |-> "select", uid |-> user.id, song |-> t,
                    res |-> "pending", existing |-> 0]]
            /\ UNCHANGED <<authModalOpen, lastAlert>>
    /\ UNCHANGED <<user, profile, likedSongs, playlists, sessionLoaded,
                   remoteProfiles, remoteLiked, remotePlaylists,
                   nextPlaylistId, fetches, plCalls, searchVars, playerVars,
                   modalVars, viewVars>>

(* A click on the heart: toggleLike(currentSong) *)
ToggleLikeClick(t) == toggleLike(t) /\ UNCHANGED roundTrip

(* The "check if exists" query; its error is not read, data is null then. *)
ServeSelectLiked(i, ok) ==
    /\ toggles[i].pc = "select" /\ toggles[i].res = "pending"
    /\ toggles' = [toggles EXCEPT
           ![i].res = IF ok THEN "ok" ELSE "err",
           ![i].existing = IF ok THEN SingleLikedId(toggles[i].uid, toggles[i].song)
                           ELSE 0]
    /\ UNCHANGED <<user, profile, likedSongs, playlists, authModalOpen,
                   lastAlert, sessionLoaded, remoteProfiles, remoteLiked,
                   remotePlaylists, nextPlaylistId, fetches,
                   plCalls, nonLibVars>>

(* if (existing) the delete request goes out, else the insert request *)
ToggleAfterSelect(i) ==
    /\ toggles[i].pc = "select" /\ toggles[i].res # "pending"
    /\ toggles' = [toggles EXCEPT
           ![i].pc = IF toggles[i].existing # 0 THEN "delete" ELSE "insert",
           ![i].res = "pending"]
    /\ UNCHANGED <<user, profile, likedSongs, playlists, authModalOpen,
                   lastAlert, sessionLoaded, remoteProfiles, remoteLiked,
                   remotePlaylists, nextPlaylistId, fetches,
                   plCalls, nonLibVars>>

(* from('liked_songs').delete().eq('id', existing.id) *)
ServeDeleteLiked(i, ok) ==
    /\ toggles[i].pc = "delete" /\ toggles[i].res = "pending"
    /\ IF ok /\ toggles[i].existing # Gone
       THEN /\ remoteLiked' = RemoveAt(remoteLiked, toggles[i].existing)
            /\ toggles' = [j \in DOMAIN toggles |->
                   [toggles[j] EXCEPT
                       !.res = IF j = i THEN "ok" ELSE @,
                       !.existing = IdAfterDelete(@, toggles[i].existing)]]
       ELSE /\ toggles' = [toggles EXCEPT ![i].res = IF ok THEN "ok" ELSE "err"]
            /\ UNCHANGED remoteLiked
    /\ UNCHANGED <<user, profile, likedSongs, playlists, authModalOpen,
                   lastAlert, sessionLoaded, remoteProfiles,
                   remotePlaylists, nextPlaylistId, fetches, plCalls, nonLibVars>>

(* from('liked_songs').insert({user_id, song_data}) *)
ServeInsertLiked(i, ok) ==
    /\ toggles[i].pc = "insert" /\ toggles[i].res = "pending"
    /\ toggles' = [toggles EXCEPT ![i].res = IF ok THEN "ok" ELSE "err"]
    /\ IF ok
       THEN remoteLiked' = Append(remoteLiked,
                [uid |-> toggles[i].uid, song |-> toggles[i].song])
       ELSE UNCHANGED remoteLiked
    /\ UNCHANGED <<user, profile, likedSongs, playlists, authModalOpen,
                   lastAlert, sessionLoaded, remoteProfiles, remotePlaylists,
                   nextPlaylistId, fetches, plCalls, nonLibVars>>

(* ToggleAfterWrite with the insert branch appending where the code       *)
(* prepends.                                                               *)
ToggleAfterWrite_Appends(i) ==
    /\ toggles[i].pc \in {"delete", "insert"} /\ toggles[i].res # "pending"
    /\ likedSongs' = IF toggles[i].pc = "insert"
                     THEN likedSongs \o <<toggles[i].song>>
                     ELSE FilterOutUrl(likedSongs, toggles[i].song)
    /\ toggles' = [toggles EXCEPT ![i] = IdleToggle]
    /\ UNCHANGED <<user, profile, playlists, authModalOpen, lastAlert,
                   sessionLoaded, remoteProfiles, remoteLiked,
                   remotePlaylists, nextPlaylistId, fetches, plCalls, nonLibVars>>

(* toggleLikedSong returns false after the delete and true after the       *)
(* insert, whatever the write answered; toggleLike then filters or         *)
(* prepends.                                                               *)
ToggleAfterWrite(i) ==
    /\ toggles[i].pc \in {"delete", "insert"} /\ toggles[i].res # "pending"
    /\ likedSongs' = IF toggles[i].pc = "insert"
                     THEN <<toggles[i].song>> \o likedSongs
                     ELSE FilterOutUrl(likedSongs, toggles[i].song)
    /\ toggles' = [toggles EXCEPT ![i] = IdleToggle]
    /\ UNCHANGED <<user, profile, playlists, authModalOpen, lastAlert,
                   sessionLoaded, remoteProfiles, remoteLiked,
                   remotePlaylists, nextPlaylistId, fetches, plCalls, nonLibVars>>

(* toggleLike(t) called twice, the second call once the first has          *)
(* finished; roundTrip keeps the liked songs before the first call.        *)
RoundTripToggle(t) ==
    /\ InFlight(toggles) = {}
    /\ roundTrip.calls < 2
    /\ roundTrip.calls = 1 => t = roundTrip.song
    /\ toggleLike(t)
    /\ roundTrip' = [calls |-> roundTrip.calls + 1, song |-> t,
                     before |-> IF roundTrip.calls = 0 THEN likedSongs
                                ELSE roundTrip.before]

(***************************************************************************)
(* Playlists: App.createNewPlaylist, the delete click handler, and the     *)
(* dbService calls behind them.                                            *)
(***************************************************************************)
(* What prompt("Nama Playlist:") can return: a text, or null on cancel. *)
PromptCancelled == "<null>"
Names == {"", " ", "mix"}
PromptResults == Names \cup {PromptCancelled}

(* !name *)
Falsy(name) == name = PromptCancelled \/ name = ""

(* The guards of createNewPlaylist, the prompt, then dbService.createPlaylist *)
(* up to its await: the insert request goes out.                           *)
createNewPlaylist(name) ==
    /\ IF user = NoUser
       THEN /\ authModalOpen' = TRUE
            /\ UNCHANGED <<lastAlert, creates>>
       ELSE IF ~user.confirmed
       THEN /\ lastAlert' = "verifyPlaylist"
            /\ UNCHANGED <<authModalOpen, creates>>
       ELSE IF Falsy(name)
       THEN UNCHANGED <<authModalOpen, lastAlert, creates>>
       ELSE /\ HasFreeSlot(creates)
            /\ (nextPlaylistId - 1) + Cardinality(InFlight(creates)) < MaxPlaylistId
            /\ creates' = [creates EXCEPT ![FreeSlot(creates)] =
                   [pc |-> "insert", uid |-> user.id, name |-> name,
                    res |-> "pending", id |-> 0]]
            /\ UNCHANGED <<authModalOpen, lastAlert>>
    /\ UNCHANGED <<user, profile, likedSongs, playlists, sessionLoaded,
                   remoteProfiles, remoteLiked, remotePlaylists,
                   nextPlaylistId, fetches, toggles, deletes, adds, nonLibVars>>

(* from('user_playlists').insert({user_id, name, image}).select().single() *)
ServeCreatePlaylist(i, ok) ==
    /\ creates[i].pc = "insert" /\ creates[i].res = "pending"
    /\ IF ok
       THEN /\ remotePlaylists' = Append(remotePlaylists,
                   [id |-> nextPlaylistId, uid |-> creates[i].uid,
                    name |-> creates[i].name, songs |-> <<>>])
            /\ nextPlaylistId' = nextPlaylistId + 1
            /\ creates' = [creates EXCEPT ![i].res = "ok",
                                          ![i].id = nextPlaylistId]
       ELSE /\ creates' = [creates EXCEPT ![i].res = "err"]
            /\ UNCHANGED <<remotePlaylists, nextPlaylistId>>
    /\ UNCHANGED <<user, profile, likedSongs, playlists, authModalOpen,
                   lastAlert, sessionLoaded, remoteProfiles, remoteLiked,
                   fetches, toggles, deletes, adds, nonLibVars>>

(* CreateAfterInsert that appends the playlist whatever the insert answered *)
CreateAfterInsert_Always(i) ==
    /\ creates[i].pc = "insert" /\ creates[i].res # "pending"
    /\ playlists' = Append(playlists,
           [id |-> creates[i].id, name |-> creates[i].name, songs |-> <<>>])
    /\ lastAlert' = IF creates[i].res = "ok" THEN lastAlert ELSE "createFailed"
    /\ creates' = [creates EXCEPT ![i] = IdleCreate]
    /\ UNCHANGED <<user, profile, likedSongs, authModalOpen, sessionLoaded,
                   remoteProfiles, remoteLiked, remotePlaylists,
                   nextPlaylistId, fetches, toggles, deletes, adds, nonLibVars>>

(* setPlaylists(prev => [...prev, {id, name, image, songs: []}]), or the   *)
(* catch: alert("Failed to create playlist")                               *)
CreateAfterInsert(i) ==
    /\ creates[i].pc = "insert" /\ creates[i].res # "pending"
    /\ IF creates[i].res = "ok"
       THEN /\ playlists' = Append(playlists,
                   [id |-> creates[i].id, name |-> creates[i].name,
                    songs |-> <<>>])
            /\ UNCHANGED lastAlert
       ELSE /\ lastAlert' = "createFailed"
            /\ UNCHANGED playlists
    /\ creates' = [creates EXCEPT ![i] = IdleCreate]
    /\ UNCHANGED <<user, profile, likedSongs, authModalOpen, sessionLoaded,
                   remoteProfiles, remoteLiked, remotePlaylists,
                   nextPlaylistId, fetches, toggles, deletes, adds, nonLibVars>>

(* The body of the trash click handler once confirmed:                     *)
(* dbService.deletePlaylist(pl.id) up to its await.  Neither the handler   *)
(* nor dbService.deletePlaylist reads the session; only the list the       *)
(* control sits in is rendered under isVerified.                           *)
deletePlaylist(id) ==
    /\ HasFreeSlot(deletes)
    /\ deletes' = [deletes EXCEPT ![FreeSlot(deletes)] =
           [pc |-> "delete", id |-> id, res |-> "pending"]]
    /\ UNCHANGED <<user, profile, likedSongs, playlists, authModalOpen,
                   lastAlert, sessionLoaded, remoteProfiles, remoteLiked,
                   remotePlaylists, nextPlaylistId, fetches, toggles, creates,
                   adds, nonLibVars>>

(* from('user_playlists').delete().eq('id', playlistId) *)
ServeDeletePlaylist(i, ok) ==
    /\ deletes[i].pc = "delete" /\ deletes[i].res = "pending"
    /\ deletes' = [deletes EXCEPT ![i].res = IF ok THEN "ok" ELSE "err"]
    /\ remotePlaylists' = IF ok
                          THEN SelectSeq(remotePlaylists,
                                         LAMBDA r : r.id # deletes[i].id)
                          ELSE remotePlaylists
    /\ UNCHANGED <<user, profile, likedSongs, playlists, authModalOpen,
                   lastAlert, sessionLoaded, remoteProfiles, remoteLiked,
                   nextPlaylistId, fetches, toggles, creates, adds, nonLibVars>>

(* DeleteAfter that filters the playlist out whatever the delete answered *)
DeleteAfter_Always(i) ==
    /\ deletes[i].pc = "delete" /\ deletes[i].res # "pending"
    /\ playlists' = SelectSeq(playlists, LAMBDA pl : pl.id # deletes[i].id)
    /\ deletes' = [deletes EXCEPT ![i] = IdleDelete]
    /\ UNCHANGED <<user, profile, likedSongs, authModalOpen, lastAlert,
                   sessionLoaded, remoteProfiles, remoteLiked, remotePlaylists,
                   nextPlaylistId, fetches, toggles, creates, adds, nonLibVars>>

(* .then(() => setPlaylists(prev => prev.filter(p => p.id !== pl.id)));    *)
(* a rejection has no handler                                              *)
DeleteAfter(i) ==
    /\ deletes[i].pc = "delete" /\ deletes[i].res # "pending"
    /\ playlists' = IF deletes[i].res = "ok"
                    THEN SelectSeq(playlists, LAMBDA pl : pl.id # deletes[i].id)
                    ELSE playlists
    /\ deletes' = [deletes EXCEPT ![i] = IdleDelete]
    /\ UNCHANGED <<user, profile, likedSongs, authModalOpen, lastAlert,
                   sessionLoaded, remoteProfiles, remoteLiked, remotePlaylists,
                   nextPlaylistId, fetches, toggles, creates, adds, nonLibVars>>

(* dbService.addSongToPlaylist(playlistId, song) up to its await *)
addSongToPlaylist(id, t) ==
    /\ HasFreeSlot(adds)
    /\ adds' = [adds EXCEPT ![FreeSlot(adds)] =
           [pc |-> "insert", id |-> id, song |-> t, res |-> "pending"]]
    /\ UNCHANGED <<user, profile, likedSongs, playlists, authModalOpen,
                   lastAlert, sessionLoaded, remoteProfiles, remoteLiked,
                   remotePlaylists, nextPlaylistId, fetches, toggles, creates,
                   deletes, nonLibVars>>

(* from('playlist_songs').insert({playlist_id, song_data}): the row joins  *)
(* the songs of its playlist; without that playlist the insert fails       *)
ServeAddSong(i, ok) ==
    /\ adds[i].pc = "insert" /\ adds[i].res = "pending"
    /\ LET hit == {k \in 1..Len(remotePlaylists) :
                      remotePlaylists[k].id = adds[i].id}
       IN  IF ok /\ hit # {}
           THEN /\ \A k \in hit : Len(remotePlaylists[k].songs) < MaxPlaylistSongs
                /\ remotePlaylists' = [k \in 1..Len(remotePlaylists) |->
                       IF k \in hit
                       THEN [remotePlaylists[k] EXCEPT
                                !.songs = Append(@, adds[i].song)]
                       ELSE remotePlaylists[k]]
                /\ adds' = [adds EXCEPT ![i].res = "ok"]
           ELSE /\ adds' = [adds EXCEPT ![i].res = "err"]
                /\ UNCHANGED remotePlaylists
    /\ UNCHANGED <<user, profile, likedSongs, playlists, authModalOpen,
                   lastAlert, sessionLoaded, remoteProfiles, remoteLiked,
                   nextPlaylistId, fetches, toggles, creates, deletes,
                   nonLibVars>>

(* addSongToPlaylist returns (or throws); App holds no caller that would   *)
(* add the song to the local playlist                                      *)
AddAfter(i) ==
    /\ adds[i].pc = "insert" /\ adds[i].res # "pending"
    /\ adds' = [adds EXCEPT ![i] = IdleAdd]
    /\ UNCHANGED <<user, profile, likedSongs, playlists, authModalOpen,
                   lastAlert, sessionLoaded, remoteProfiles, remoteLiked,
                   remotePlaylists, nextPlaylistId, fetches, toggles, creates,
                   deletes, nonLibVars>>

(***************************************************************************)
(* SpecGate: the session gate with sync, and one like toggle at a time     *)
(* whose requests succeed.                                                 *)
(***************************************************************************)
NextGate ==
    \/ \E session \in Sessions : OnAuthStateChange(session)
    \/ \E i \in 1..MaxFetches, ok \in BOOLEAN : ServeGetProfile(i, ok)
    \/ \E i \in 1..MaxFetches : FetchAfterGetProfile(i)
    \/ \E i \in 1..MaxFetches, ok \in BOOLEAN : ServeUpsertProfile(i, ok)
    \/ \E i \in 1..MaxFetches : FetchAfterUpsertProfile(i)
    \/ \E i \in 1..MaxFetches, ok \in BOOLEAN : ServeGetLikedSongs(i, ok)
    \/ \E i \in 1..MaxFetches : FetchAfterGetLikedSongs(i)
    \/ \E i \in 1..MaxFetches, ok \in BOOLEAN : ServeGetPlaylists(i, ok)
    \/ \E i \in 1..MaxFetches : FetchAfterGetPlaylists(i)
    \/ \E t \in LikeTracks : InFlight(toggles) = {} /\ ToggleLikeClick(t)
    \/ \E i \in 1..MaxToggles : ServeSelectLiked(i, TRUE)
    \/ \E i \in 1..MaxToggles : ToggleAfterSelect(i)
    \/ \E i \in 1..MaxToggles : ServeDeleteLiked(i, TRUE)
    \/ \E i \in 1..MaxToggles : ServeInsertLiked(i, TRUE)
    \/ \E i \in 1..MaxToggles : ToggleAfterWrite(i)

SpecGate == Init /\ [][NextGate]_vars

(***************************************************************************)
(* SpecSession: session events and the syncs they start.  User 1 is signed *)
(* in and verified; the backend holds a playlist and liked songs of that   *)
(* user; either a sync has completed (synced) or none has run yet and the  *)
(* profile row is still to be created.                                     *)
(***************************************************************************)
InitSession ==
    /\ user = [id |-> 1, confirmed |-> TRUE]
    /\ \E L \in {l \in LikedLists : Len(l) <= 1}, synced \in BOOLEAN :
          /\ remoteLiked = [k \in 1..Len(L) |-> [uid |-> 1, song |-> L[k]]]
          /\ remoteProfiles = IF synced THEN {1} ELSE {}
          /\ profile = IF synced THEN 1 ELSE 0
          /\ likedSongs = IF synced THEN L ELSE <<>>
          /\ playlists = IF synced
                         THEN <<[id |-> 1, name |-> "mix", songs |-> <<1>>]>>
                         ELSE <<>>
    /\ authModalOpen = FALSE
    /\ lastAlert = "none"
    /\ sessionLoaded = TRUE
    /\ remotePlaylists = <<[id |-> 1, uid |-> 1, name |-> "mix", songs |-> <<1>>]>>
    /\ nextPlaylistId = 2
    /\ InitNoCalls
    /\ InitSearch
    /\ InitPlayer

NextSession ==
    \/ \E session \in Sessions : OnAuthStateChange(session)
    \/ \E i \in 1..MaxFetches, ok \in BOOLEAN : ServeGetProfile(i, ok)
    \/ \E i \in 1..MaxFetches : FetchAfterGetProfile(i)
    \/ \E i \in 1..MaxFetches, ok \in BOOLEAN : ServeUpsertProfile(i, ok)
    \/ \E i \in 1..MaxFetches : FetchAfterUpsertProfile(i)
    \/ \E i \in 1..MaxFetches, ok \in BOOLEAN : ServeGetLikedSongs(i, ok)
    \/ \E i \in 1..MaxFetches : FetchAfterGetLikedSongs(i)
    \/ \E i \in 1..MaxFetches, ok \in BOOLEAN : ServeGetPlaylists(i, ok)
    \/ \E i \in 1..MaxFetches : FetchAfterGetPlaylists(i)

SpecSession == InitSession /\ [][NextSession]_vars

(***************************************************************************)
(* SpecLiked: a verified session whose first sync has completed, and like  *)
(* toggles that overlap and whose requests may fail.                       *)
(***************************************************************************)
NextLiked ==
    \/ \E t \in LikeTracks : ToggleLikeClick(t)
    \/ \E i \in 1..MaxToggles, ok \in BOOLEAN : ServeSelectLiked(i, ok)
    \/ \E i \in 1..MaxToggles : ToggleAfterSelect(i)
    \/ \E i \in 1..MaxToggles, ok \in BOOLEAN : ServeDeleteLiked(i, ok)
    \/ \E i \in 1..MaxToggles, ok \in BOOLEAN : ServeInsertLiked(i, ok)
    \/ \E i \in 1..MaxToggles : ToggleAfterWrite(i)

SpecLiked == InitSynced /\ [][NextLiked]_vars

(***************************************************************************)
(* SpecRoundTrip: a verified session whose first sync has completed; one   *)
(* track is toggled twice, one call after the other, every request         *)
(* succeeding.                                                             *)
(***************************************************************************)
NextRoundTrip ==
    \/ \E t \in LikeTracks : RoundTripToggle(t)
    \/ \E i \in 1..MaxToggles : ServeSelectLiked(i, TRUE)
    \/ \E i \in 1..MaxToggles : ToggleAfterSelect(i)
    \/ \E i \in 1..MaxToggles : ServeDeleteLiked(i, TRUE)
    \/ \E i \in 1..MaxToggles : ServeInsertLiked(i, TRUE)
    \/ \E i \in 1..MaxToggles : ToggleAfterWrite(i)

SpecRoundTrip == InitSynced /\ [][NextRoundTrip]_vars

(***************************************************************************)
(* SpecPlaylists: a verified session whose first sync has completed with   *)
(* empty tables; the playlist operations, overlapping and failing; and     *)
(* the session events that end or unverify the session.                    *)
(***************************************************************************)
PlaylistIds == 1..MaxPlaylistId

InitPlaylists == InitSynced /\ likedSongs = <<>>

NextPlaylists ==
    \/ \E session \in Sessions : ~IsVerified(session) /\ OnAuthStateChange(session)
    \/ \E name \in PromptResults : createNewPlaylist(name)
    \/ \E i \in 1..MaxPlaylistCalls, ok \in BOOLEAN : ServeCreatePlaylist(i, ok)
    \/ \E i \in 1..MaxPlaylistCalls : CreateAfterInsert(i)
    \/ \E id \in PlaylistIds : deletePlaylist(id)
    \/ \E i \in 1..MaxPlaylistCalls, ok \in BOOLEAN : ServeDeletePlaylist(i, ok)
    \/ \E i \in 1..MaxPlaylistCalls : DeleteAfter(i)
    \/ \E id \in PlaylistIds : addSongToPlaylist(id, 1)
    \/ \E i \in 1..MaxPlaylistCalls, ok \in BOOLEAN : ServeAddSong(i, ok)
    \/ \E i \in 1..MaxPlaylistCalls : AddAfter(i)

SpecPlaylists == InitPlaylists /\ [][NextPlaylists]_vars

(* SpecCreateDelete: a verified session that creates and deletes playlists *)
NextCreateDelete ==
    \/ \E name \in PromptResults : createNewPlaylist(name)
    \/ \E i \in 1..MaxPlaylistCalls, ok \in BOOLEAN : ServeCreatePlaylist(i, ok)
    \/ \E i \in 1..MaxPlaylistCalls : CreateAfterInsert(i)
    \/ \E id \in PlaylistIds : deletePlaylist(id)
    \/ \E i \in 1..MaxPlaylistCalls, ok \in BOOLEAN : ServeDeletePlaylist(i, ok)
    \/ \E i \in 1..MaxPlaylistCalls : DeleteAfter(i)

SpecCreateDelete == InitPlaylists /\ [][NextCreateDelete]_vars

(***************************************************************************)
(* SearchPipeline: the search input's onChange and performSearch.          *)
(***************************************************************************)
Queries == {"", "ab", "abc", "abcd"}

(* What the catalog endpoint answers for a term: {songs: [{url, thumbnail}]}; *)
(* title and artist are copied through and left out here.                  *)
Catalog(term) ==
    IF term = "abc" THEN <<[url |-> 1, thumbnail |-> 11], [url |-> 2, thumbnail |-> 12]>>
    ELSE IF term = "abcd" THEN <<[url |-> 2, thumbnail |-> 12]>>
    ELSE <<>>

(* data.songs.map(s => ({url, title, artist, cover: s.thumbnail})) *)
MapSongs(songs) ==
    [k \in 1..Len(songs) |-> [url |-> songs[k].url, cover |-> songs[k].thumbnail]]

(* setSearchQuery(value); if (value.length > 2) performSearch(value), which *)
(* runs to its await: setIsSearching(true) and the fetch goes out          *)
onSearchChange(value) ==
    /\ searchQuery' = value
    /\ IF Len(value) > 2
       THEN /\ HasFreeSlot(searches)
            /\ isSearching' = TRUE
            /\ searches' = [searches EXCEPT ![FreeSlot(searches)] =
                   [pc |-> "fetch", term |-> value, res |-> "pending",
                    songs |-> <<>>]]
       ELSE UNCHANGED <<isSearching, searches>>
    /\ UNCHANGED <<searchResults, libAndPlayerVars>>

(* The endpoint answers: with songs, without a songs field, or not at all  *)
(* (fetch or res.json() throws).                                           *)
ServeSearch(i, outcome) ==
    /\ searches[i].pc = "fetch" /\ searches[i].res = "pending"
    /\ searches' = [searches EXCEPT
           ![i].res = outcome,
           ![i].songs = IF outcome = "ok" THEN Catalog(searches[i].term) ELSE <<>>]
    /\ UNCHANGED <<searchQuery, searchResults, isSearching, libAndPlayerVars>>

(* performSearch after its awaits: setSearchResults(mapped) or ([]), the   *)
(* catch that only logs, and finally setIsSearching(false)                 *)
PerformSearchAfter(i) ==
    /\ searches[i].pc = "fetch" /\ searches[i].res # "pending"
    /\ searchResults' =
           IF searches[i].res = "ok" THEN MapSongs(searches[i].songs)
           ELSE IF searches[i].res = "nosongs" THEN <<>>
           ELSE searchResults
    /\ isSearching' = FALSE
    /\ searches' = [searches EXCEPT ![i] = IdleSearch]
    /\ UNCHANGED <<searchQuery, libAndPlayerVars>>

NextSearch ==
    \/ \E value \in Queries : onSearchChange(value)
    \/ \E i \in 1..MaxSearches, outcome \in {"ok", "nosongs", "err"} :
          ServeSearch(i, outcome)
    \/ \E i \in 1..MaxSearches : PerformSearchAfter(i)

SpecSearch == Init /\ [][NextSearch]_vars

(* SpecSearchOk: the same, with an endpoint that always answers with songs *)
NextSearchOk ==
    \/ \E value \in Queries : onSearchChange(value)
    \/ \E i \in 1..MaxSearches : ServeSearch(i, "ok")
    \/ \E i \in 1..MaxSearches : PerformSearchAfter(i)

SpecSearchOk == Init /\ [][NextSearchOk]_vars

(***************************************************************************)
(* PlaybackEngine: playMusic, the audio effect on currentSong, togglePlay  *)
(* and handleEnded, against the audio element.  The element is "empty",    *)
(* "loading" (src set, play() asked, not started yet), "playing",          *)
(* "paused", "ended" or "error".  Setting src while a play() promise is    *)
(* pending rejects that promise (the element aborts the load), and its     *)
(* catch runs before any other handler.                                    *)
(***************************************************************************)
(* Queues a caller passes: the songs of a playlist or of the liked songs,  *)
(* one object per position.                                                *)
Queues ==
    UNION {{q \in [1..n -> Tracks] : \A a, b \in 1..n : a # b => q[a] # q[b]} :
           n \in 1..MaxQueue}

(* playlistQueue.findIndex(s => s.url === currentSong.url), 0 for -1 *)
FindIndex(queue, t) ==
    LET hits == {k \in 1..Len(queue) : Url(queue[k]) = Url(t)}
    IN  IF hits = {} THEN 0 ELSE CHOOSE k \in hits : \A j \in hits : k <= j

(* setCurrentSong(song) and the effect it triggers when currentSong        *)
(* changes: audio.src = streamUrl; audio.play().then(...).catch(...).      *)
(* Setting the state to the object it already holds triggers nothing, and  *)
(* the element stays as it is (elem).                                      *)
SetCurrentSong(song, elem) ==
    /\ currentSong' = song
    /\ IF song # currentSong
       THEN /\ audioSrc' = song
            /\ audioState' = "loading"
            /\ audioTime' = 0
            /\ audioDuration' = 0
            /\ staleRejected' = startPending
            /\ startPending' = TRUE
       ELSE /\ audioState' = elem
            /\ UNCHANGED <<audioSrc, audioTime, audioDuration, staleRejected,
                           startPending>>

(* playMusic(song, queue = []) *)
playMusic(song, queue) ==
    /\ ~staleRejected
    /\ playlistQueue' = IF Len(queue) > 0 THEN queue ELSE <<song>>
    /\ SetCurrentSong(song, audioState)
    /\ UNCHANGED <<isPlaying, progress, currentTime, duration, libAndSearchVars>>

(* audio.play() fulfils: .then(() => setIsPlaying(true)) *)
StartResolved ==
    /\ ~staleRejected
    /\ startPending /\ audioState = "loading"
    /\ audioState' = "playing"
    /\ isPlaying' = TRUE
    /\ startPending' = FALSE
    /\ UNCHANGED <<currentSong, playlistQueue, progress, currentTime, duration,
                   audioSrc, audioTime, audioDuration, staleRejected,
                   libAndSearchVars>>

(* audio.play() rejects (stream unreachable, playback not allowed):        *)
(* .catch(e => setIsPlaying(false))                                        *)
StartRejected ==
    /\ ~staleRejected
    /\ startPending /\ audioState = "loading"
    /\ audioState' = "error"
    /\ isPlaying' = FALSE
    /\ startPending' = FALSE
    /\ UNCHANGED <<currentSong, playlistQueue, progress, currentTime, duration,
                   audioSrc, audioTime, audioDuration, staleRejected,
                   libAndSearchVars>>

(* The catch of a play() promise that a newer src has aborted:             *)
(* setIsPlaying(false), whichever song is current by now                   *)
StaleStartRejected ==
    /\ staleRejected
    /\ isPlaying' = FALSE
    /\ staleRejected' = FALSE
    /\ UNCHANGED <<currentSong, playlistQueue, progress, currentTime, duration,
                   audioSrc, audioState, audioTime, audioDuration,
                   startPending, libAndSearchVars>>

(* togglePlay without the test for a current song *)
togglePlay_NoGuard(granted) ==
    /\ ~staleRejected
    /\ IF isPlaying
       THEN /\ audioState' = IF audioState \in {"playing", "loading"}
                             THEN "paused" ELSE audioState
            /\ startPending' = FALSE
            /\ isPlaying' = FALSE
       ELSE /\ audioState' = IF audioState \in {"paused", "ended"} /\ granted
                             THEN "playing" ELSE audioState
            /\ isPlaying' = TRUE
            /\ UNCHANGED startPending
    /\ UNCHANGED <<currentSong, playlistQueue, progress, currentTime, duration,
                   audioSrc, audioTime, audioDuration, staleRejected,
                   libAndSearchVars>>

(* togglePlay; granted says whether the element lets audio.play() start *)
togglePlay(granted) ==
    /\ ~staleRejected
    /\ IF currentSong = 0
       THEN UNCHANGED <<isPlaying, audioState, startPending>>
       ELSE IF isPlaying
       THEN /\ audioState' = IF audioState \in {"playing", "loading"}
                             THEN "paused" ELSE audioState
            /\ startPending' = FALSE
            /\ isPlaying' = FALSE
       ELSE /\ audioState' = IF audioState \in {"paused", "ended"} /\ granted
                             THEN "playing" ELSE audioState
            /\ isPlaying' = TRUE
            /\ UNCHANGED startPending
    /\ UNCHANGED <<currentSong, playlistQueue, progress, currentTime, duration,
                   audioSrc, audioTime, audioDuration, staleRejected,
                   libAndSearchVars>>

(* handleEnded: the successor of the first queue entry with the current    *)
(* song's url becomes current, or playback is marked stopped.  It runs on  *)
(* the element's ended event (ended, the element was playing and is now    *)
(* "ended") and on a click on the forward-step control (~ended).           *)
handleEnded(ended) ==
    /\ ~staleRejected
    /\ ended => audioState = "playing"
    /\ LET elem == IF ended THEN "ended" ELSE audioState
           currentIndex == FindIndex(playlistQueue, currentSong)
       IN  IF currentSong = 0
           THEN /\ audioState' = elem
                /\ UNCHANGED <<currentSong, isPlaying, audioSrc, audioTime,
                               audioDuration, staleRejected, startPending>>
           ELSE IF currentIndex # 0 /\ currentIndex < Len(playlistQueue)
           THEN /\ SetCurrentSong(playlistQueue[currentIndex + 1], elem)
                /\ UNCHANGED isPlaying
           ELSE /\ isPlaying' = FALSE
                /\ audioState' = elem
                /\ UNCHANGED <<currentSong, audioSrc, audioTime, audioDuration,
                               staleRejected, startPending>>
    /\ UNCHANGED <<playlistQueue, progress, currentTime, duration,
                   libAndSearchVars>>

(* The element while no metadata is known: audio.duration is NaN *)
NoDuration == 0

(* Durations of the streams, in seconds *)
Durations == {4}

(* Values the seek control can hand to handleSeek: the range input gives   *)
(* 0..100; the others are what a caller outside the control could pass     *)
SeekValues == {-100, 0, 50, 100, 200}

(* The element's loadedmetadata: audio.duration becomes known *)
LoadedMetadata(d) ==
    /\ ~staleRejected
    /\ audioState \in {"loading", "playing", "paused"}
    /\ audioDuration = NoDuration
    /\ audioDuration' = d
    /\ UNCHANGED <<currentSong, isPlaying, playlistQueue, progress, currentTime,
                   duration, audioSrc, audioState, audioTime, startPending,
                   staleRejected, libAndSearchVars>>

(* Playback moves on by a second *)
TimePasses ==
    /\ ~staleRejected
    /\ audioState = "playing"
    /\ audioDuration # NoDuration /\ audioTime < audioDuration
    /\ audioTime' = audioTime + 1
    /\ UNCHANGED <<currentSong, isPlaying, playlistQueue, progress, currentTime,
                   duration, audioSrc, audioState, audioDuration, startPending,
                   staleRejected, libAndSearchVars>>

(* handleTimeUpdate, on the element's timeupdate event *)
handleTimeUpdate ==
    /\ ~staleRejected
    /\ audioState # "empty"
    /\ currentTime' = audioTime
    /\ duration' = audioDuration
    /\ progress' = (audioTime * 100) \div
                       (IF audioDuration = NoDuration THEN 1 ELSE audioDuration)
    /\ UNCHANGED <<currentSong, isPlaying, playlistQueue, audioSrc, audioState,
                   audioTime, audioDuration, startPending, staleRejected,
                   libAndSearchVars>>

(* What the element makes of an assignment to currentTime: a position      *)
(* before the start becomes the start, one past the end becomes the end    *)
ElementSeek(pos) ==
    IF pos < 0 THEN 0 ELSE IF pos > audioDuration THEN audioDuration ELSE pos

(* handleSeek: audio.currentTime = (val / 100) * audio.duration;           *)
(* setProgress(val).  While the duration is NaN the assignment throws and  *)
(* setProgress is not reached.                                             *)
handleSeek(val) ==
    /\ ~staleRejected
    /\ IF audioDuration = NoDuration
       THEN UNCHANGED <<audioTime, progress>>
       ELSE /\ audioTime' = ElementSeek((val * audioDuration) \div 100)
            /\ progress' = val
    /\ UNCHANGED <<currentSong, isPlaying, playlistQueue, currentTime, duration,
                   audioSrc, audioState, audioDuration, startPending,
                   staleRejected, libAndSearchVars>>

NextPlayer ==
    \/ \E q \in Queues : \E k \in 1..Len(q) : playMusic(q[k], q)
    \/ \E t \in Tracks : playMusic(t, <<>>)
    \/ StartResolved
    \/ StartRejected
    \/ StaleStartRejected
    \/ \E granted \in BOOLEAN : togglePlay(granted)
    \/ \E ended \in BOOLEAN : handleEnded(ended)

SpecPlayer == Init /\ [][NextPlayer]_vars

(* SpecSeek: songs played on their own, playback time and the seek control *)
NextSeek ==
    \/ \E t \in Tracks : playMusic(t, <<>>)
    \/ StartResolved
    \/ StartRejected
    \/ StaleStartRejected
    \/ \E d \in Durations : LoadedMetadata(d)
    \/ TimePasses
    \/ handleTimeUpdate
    \/ \E val \in SeekValues : handleSeek(val)

SpecSeek == Init /\ [][NextSeek]_vars

(* SpecPlayerAny: the same, with playMusic also called for a song that is  *)
(* not in the queue passed with it (no caller in App does so).             *)
NextPlayerAny ==
    \/ NextPlayer
    \/ \E q \in Queues, t \in Tracks : playMusic(t, q)

SpecPlayerAny == Init /\ [][NextPlayerAny]_vars

(***************************************************************************)
(* AuthModal: handleAuth with the identity provider behind it, the         *)
(* sign-up countdown, and the controls of the modal.  The modal stays      *)
(* mounted while closed, so its state and its countdown live on.           *)
(***************************************************************************)
(* setRateLimitSeconds(30) *)
RateLimit == 30

(* The session the provider opens for the account of the modal's email *)
SessionUser == [id |-> 1, confirmed |-> TRUE]

(* What supabase.auth.signUp answers: an error, a user without a session   *)
(* (the email is yet to be confirmed), or a user with a session            *)
SignUpOutcomes == {"err", "user", "session"}

(* OpenAuthModal with a modal that starts its countdown afresh when it is  *)
(* opened                                                                  *)
OpenAuthModal_ResetsCountdown ==
    /\ ~authModalOpen
    /\ authModalOpen' = TRUE
    /\ errorMsg' = ""
    /\ rateLimitSeconds' = 0
    /\ UNCHANGED <<isSignUp, loading, authCall,
                   signUpHistory, lastAlert, remoteProfiles, outsideModalVars>>

(* The user icon: setAuthModalOpen(true); the effect on [isOpen, isSignUp] *)
(* clears the error message                                                *)
OpenAuthModal ==
    /\ ~authModalOpen
    /\ authModalOpen' = TRUE
    /\ errorMsg' = ""
    /\ UNCHANGED <<isSignUp, loading, rateLimitSeconds, authCall,
                   signUpHistory, lastAlert, remoteProfiles, outsideModalVars>>

(* The Cancel button of the modal: onClose().  A handleAuth call in flight *)
(* goes on; the modal stays mounted and keeps its state.                   *)
CancelClick ==
    /\ authModalOpen
    /\ authModalOpen' = FALSE
    /\ UNCHANGED <<modalVars, lastAlert, remoteProfiles, outsideModalVars>>

(* The link below the form: setIsSignUp(!isSignUp) *)
ToggleMode ==
    /\ authModalOpen
    /\ isSignUp' = ~isSignUp
    /\ errorMsg' = ""
    /\ UNCHANGED <<loading, rateLimitSeconds, authCall, signUpHistory,
                   authModalOpen, lastAlert, remoteProfiles, outsideModalVars>>

(* handleAuth up to its first await; valid says whether the sign-up form   *)
(* passes the checks on its fields                                         *)
handleAuth(valid) ==
    /\ authCall.pc = "idle"
    /\ IF isSignUp /\ ~valid
       THEN /\ errorMsg' = "invalid"
            /\ UNCHANGED <<loading, authCall>>
       ELSE IF isSignUp /\ rateLimitSeconds > 0
       THEN /\ errorMsg' = ""
            /\ UNCHANGED <<loading, authCall>>
       ELSE /\ errorMsg' = ""
            /\ loading' = TRUE
            /\ authCall' = [pc |-> IF isSignUp THEN "signUp" ELSE "signIn",
                            res |-> "pending", session |-> FALSE]
    /\ UNCHANGED <<isSignUp, rateLimitSeconds, signUpHistory, authModalOpen,
                   lastAlert, remoteProfiles, outsideModalVars>>

(* The submit button: disabled={loading || (isSignUp && rateLimitSeconds > 0)} *)
SubmitClick(valid) ==
    /\ authModalOpen
    /\ ~loading
    /\ ~(isSignUp /\ rateLimitSeconds > 0)
    /\ handleAuth(valid)

(* supabase.auth.signUp answers *)
ServeSignUp(outcome) ==
    /\ authCall.pc = "signUp" /\ authCall.res = "pending"
    /\ authCall' = [authCall EXCEPT !.res = outcome]
    /\ UNCHANGED <<isSignUp, loading, errorMsg, rateLimitSeconds,
                   signUpHistory, authModalOpen, lastAlert, remoteProfiles,
                   outsideModalVars>>

(* supabase.auth.signInWithPassword answers: a session or an error *)
ServeSignIn(ok) ==
    /\ authCall.pc = "signIn" /\ authCall.res = "pending"
    /\ authCall' = [authCall EXCEPT !.res = IF ok THEN "session" ELSE "err"]
    /\ UNCHANGED <<isSignUp, loading, errorMsg, rateLimitSeconds,
                   signUpHistory, authModalOpen, lastAlert, remoteProfiles,
                   outsideModalVars>>

(* A call that opened a session: the provider notifies the listener of App *)
(* (SIGNED_IN) before the call returns.  A sign-up that yields a user      *)
(* without a session notifies nobody.                                      *)
SignedInEvent ==
    /\ authCall.res = "session"
    /\ user = NoUser
    /\ OnAuthStateChange(SessionUser)

(* handleAuth after signUp: the catch, or on to the profiles upsert *)
HandleAuthAfterSignUp ==
    /\ authCall.pc = "signUp" /\ authCall.res # "pending"
    /\ authCall.res = "session" => user # NoUser
    /\ IF authCall.res = "err"
       THEN /\ errorMsg' = "error"
            /\ loading' = FALSE
            /\ authCall' = IdleAuth
       ELSE /\ authCall' = [pc |-> "upsertProfile", res |-> "pending",
                            session |-> authCall.res = "session"]
            /\ UNCHANGED <<errorMsg, loading>>
    /\ UNCHANGED <<isSignUp, rateLimitSeconds, signUpHistory, authModalOpen,
                   lastAlert, remoteProfiles, outsideModalVars>>

(* from('profiles').upsert(...) of the modal answers *)
ServeProfileUpsert(ok) ==
    /\ authCall.pc = "upsertProfile" /\ authCall.res = "pending"
    /\ authCall' = [authCall EXCEPT !.res = IF ok THEN "ok" ELSE "err"]
    /\ remoteProfiles' = IF ok THEN remoteProfiles \cup {SessionUser.id}
                         ELSE remoteProfiles
    /\ UNCHANGED <<isSignUp, loading, errorMsg, rateLimitSeconds,
                   signUpHistory, authModalOpen, lastAlert, outsideModalVars>>

(* HandleAuthAfterUpsert without setRateLimitSeconds(30) *)
HandleAuthAfterUpsert_NoLimit ==
    /\ authCall.pc = "upsertProfile" /\ authCall.res # "pending"
    /\ signUpHistory' = [succeeded |-> TRUE, ticks |-> 0]
    /\ lastAlert' = IF authCall.session THEN lastAlert ELSE "registered"
    /\ authModalOpen' = FALSE
    /\ loading' = FALSE
    /\ authCall' = IdleAuth
    /\ UNCHANGED <<isSignUp, errorMsg, rateLimitSeconds, remoteProfiles,
                   outsideModalVars>>

(* handleAuth after the upsert, whose error is only logged:                *)
(* setRateLimitSeconds(30), the alert when there is no session, onClose(), *)
(* and finally setLoading(false)                                           *)
HandleAuthAfterUpsert ==
    /\ authCall.pc = "upsertProfile" /\ authCall.res # "pending"
    /\ rateLimitSeconds' = RateLimit
    /\ signUpHistory' = [succeeded |-> TRUE, ticks |-> 0]
    /\ lastAlert' = IF authCall.session THEN lastAlert ELSE "registered"
    /\ authModalOpen' = FALSE
    /\ loading' = FALSE
    /\ authCall' = IdleAuth
    /\ UNCHANGED <<isSignUp, errorMsg, remoteProfiles, outsideModalVars>>

(* handleAuth after signInWithPassword: onClose() or the catch *)
HandleAuthAfterSignIn ==
    /\ authCall.pc = "signIn" /\ authCall.res # "pending"
    /\ authCall.res = "session" => user # NoUser
    /\ IF authCall.res = "err"
       THEN /\ errorMsg' = "error"
            /\ UNCHANGED authModalOpen
       ELSE /\ authModalOpen' = FALSE
            /\ UNCHANGED errorMsg
    /\ loading' = FALSE
    /\ authCall' = IdleAuth
    /\ UNCHANGED <<isSignUp, rateLimitSeconds, signUpHistory, lastAlert,
                   remoteProfiles, outsideModalVars>>

(* The countdown effect: every second setRateLimitSeconds(prev => prev - 1) *)
(* while rateLimitSeconds > 0                                               *)
CountdownTick ==
    /\ rateLimitSeconds > 0
    /\ rateLimitSeconds' = rateLimitSeconds - 1
    /\ signUpHistory' = [signUpHistory EXCEPT
           !.ticks = IF @ < RateLimit THEN @ + 1 ELSE @]
    /\ UNCHANGED <<isSignUp, loading, errorMsg, authCall, authModalOpen,
                   lastAlert, remoteProfiles, outsideModalVars>>

(* SpecAuth: a visitor without a session at the modal, who may also click  *)
(* the heart of a song.                                                    *)
NextAuth ==
    \/ OpenAuthModal
    \/ CancelClick
    \/ ToggleMode
    \/ \E valid \in BOOLEAN : SubmitClick(valid)
    \/ \E outcome \in SignUpOutcomes : ServeSignUp(outcome)
    \/ \E ok \in BOOLEAN : ServeSignIn(ok)
    \/ SignedInEvent
    \/ HandleAuthAfterSignUp
    \/ \E ok \in BOOLEAN : ServeProfileUpsert(ok)
    \/ HandleAuthAfterUpsert
    \/ HandleAuthAfterSignIn
    \/ CountdownTick
    \/ \E t \in LikeTracks : ~IsVerified(user) /\ ToggleLikeClick(t)

SpecAuth == Init /\ [][NextAuth]_vars

(* SpecAuthFair: the interval timer of the countdown effect keeps firing *)
SpecAuthFair == SpecAuth /\ WF_vars(CountdownTick)

(***************************************************************************)
(* SpecOverlap: a fresh load with accounts that each hold a profile row    *)
(* and one liked song of their own.  The getSession answer and the auth    *)
(* events carry verified sessions, each starts a fetchData, and the syncs  *)
(* overlap; every request succeeds.                                        *)
(***************************************************************************)
Accounts == 1..NumAccounts

VerifiedSessions == [id : Accounts, confirmed : {TRUE}]

InitOverlap ==
    /\ user = NoUser
    /\ profile = 0
    /\ likedSongs = <<>>
    /\ playlists = <<>>
    /\ authModalOpen = FALSE
    /\ lastAlert = "none"
    /\ sessionLoaded = FALSE
    /\ remoteProfiles = Accounts
    /\ remoteLiked = [k \in Accounts |-> [uid |-> k, song |-> k]]
    /\ remotePlaylists = <<>>
    /\ nextPlaylistId = 1
    /\ roundTrip = NoRoundTrip
    /\ InitModal
    /\ InitView
    /\ fetches = [i \in 1..MaxSyncs |-> IdleFetch]
    /\ toggles = [i \in 1..MaxToggles |-> IdleToggle]
    /\ creates = [i \in 1..MaxPlaylistCalls |-> IdleCreate]
    /\ deletes = [i \in 1..MaxPlaylistCalls |-> IdleDelete]
    /\ adds = [i \in 1..MaxPlaylistCalls |-> IdleAdd]
    /\ InitSearch
    /\ InitPlayer

NextOverlap ==
    \/ \E session \in VerifiedSessions : GetSessionThen(session)
    \/ \E session \in VerifiedSessions : OnAuthStateChange(session)
    \/ \E i \in 1..MaxSyncs : ServeGetProfile(i, TRUE)
    \/ \E i \in 1..MaxSyncs : FetchAfterGetProfile(i)
    \/ \E i \in 1..MaxSyncs : ServeGetLikedSongs(i, TRUE)
    \/ \E i \in 1..MaxSyncs : FetchAfterGetLikedSongs(i)
    \/ \E i \in 1..MaxSyncs : ServeGetPlaylists(i, TRUE)
    \/ \E i \in 1..MaxSyncs : FetchAfterGetPlaylists(i)

SpecOverlap == InitOverlap /\ [][NextOverlap]_vars

(***************************************************************************)
(* SpecLikedOk: SpecLiked with a backend that answers every request: only  *)
(* the interleaving of the toggles varies.                                 *)
(***************************************************************************)
NextLikedOk ==
    \/ \E t \in LikeTracks : ToggleLikeClick(t)
    \/ \E i \in 1..MaxToggles : ServeSelectLiked(i, TRUE)
    \/ \E i \in 1..MaxToggles : ToggleAfterSelect(i)
    \/ \E i \in 1..MaxToggles : ServeDeleteLiked(i, TRUE)
    \/ \E i \in 1..MaxToggles : ServeInsertLiked(i, TRUE)
    \/ \E i \in 1..MaxToggles : ToggleAfterWrite(i)

SpecLikedOk == InitSynced /\ [][NextLikedOk]_vars

(***************************************************************************)
(* SpecQueue: one playMusic(q[1], q) from a fresh load and no user action  *)
(* after it; every stream starts and plays to its end.  SpecQueueFair adds *)
(* that a play() promise is answered and that a playing stream reaches its *)
(* end, which fires the element's ended event.                             *)
(***************************************************************************)
PlayQueue(q) == currentSong = 0 /\ playMusic(q[1], q)

NextQueue ==
    \/ \E q \in Queues : PlayQueue(q)
    \/ StartResolved
    \/ handleEnded(TRUE)

SpecQueue == Init /\ [][NextQueue]_vars

SpecQueueFair ==
    SpecQueue /\ WF_vars(StartResolved) /\ WF_vars(handleEnded(TRUE))

(***************************************************************************)
(* The library and playlist-detail views: the navbar, the Liked Songs      *)
(* folder, the playlist rows and the back arrow.                           *)
(***************************************************************************)
NavItems == {"home", "search", "library"}

(* A navbar item, or the back arrow of the detail view: setView(navItem) *)
SetView(navItem) ==
    /\ view' = navItem
    /\ UNCHANGED <<currentPlaylistDetail, libVars, searchVars, playerVars,
                   roundTrip, modalVars>>

(* openPlaylist(pl) *)
openPlaylist(pl) ==
    /\ currentPlaylistDetail' = pl
    /\ view' = "playlist-detail"

(* The Liked Songs folder of the library view:                             *)
(* isVerified ? openPlaylist({id: 'liked', ..., songs: likedSongs})        *)
(*            : alert("Verify email to access.")                           *)
LikedFolderClick ==
    /\ view = "library"
    /\ IF IsVerified(user)
       THEN /\ openPlaylist([kind |-> "liked", id |-> 0, songs |-> likedSongs])
            /\ UNCHANGED lastAlert
       ELSE /\ lastAlert' = "verifyAccess"
            /\ UNCHANGED viewVars
    /\ UNCHANGED <<user, profile, likedSongs, playlists, authModalOpen,
                   sessionLoaded, remoteProfiles, remoteLiked, remotePlaylists,
                   nextPlaylistId, fetches, toggles, plCalls, searchVars,
                   playerVars, roundTrip, modalVars>>

(* A playlist row of the library view, rendered when isVerified:           *)
(* onClick={() => openPlaylist(pl)}                                        *)
PlaylistRowClick(k) ==
    /\ view = "library"
    /\ IsVerified(user)
    /\ k \in 1..Len(playlists)
    /\ openPlaylist([kind |-> "playlist", id |-> playlists[k].id,
                     songs |-> playlists[k].songs])
    /\ UNCHANGED <<libVars, searchVars, playerVars, roundTrip, modalVars>>

(***************************************************************************)
(* SpecDetail: a verified session with a library, the views, like toggles  *)
(* one at a time with a backend that answers, and session events that end  *)
(* the verified session (sign-out, or a session without a confirmed email).*)
(***************************************************************************)
NextDetail ==
    \/ \E navItem \in NavItems : SetView(navItem)
    \/ LikedFolderClick
    \/ \E k \in 1..MaxPlaylistId : PlaylistRowClick(k)
    \/ \E session \in Sessions : ~IsVerified(session) /\ OnAuthStateChange(session)
    \/ \E t \in LikeTracks : InFlight(toggles) = {} /\ ToggleLikeClick(t)
    \/ \E i \in 1..MaxToggles : ServeSelectLiked(i, TRUE)
    \/ \E i \in 1..MaxToggles : ToggleAfterSelect(i)
    \/ \E i \in 1..MaxToggles : ServeDeleteLiked(i, TRUE)
    \/ \E i \in 1..MaxToggles : ServeInsertLiked(i, TRUE)
    \/ \E i \in 1..MaxToggles : ToggleAfterWrite(i)

SpecDetail == InitSession /\ [][NextDetail]_vars

(***************************************************************************)
(* The whole application: every handler above, from a fresh load.          *)
(***************************************************************************)
Next ==
    \/ \E session \in Sessions : GetSessionThen(session)
    \/ NextGate
    \/ NextLiked
    \/ NextPlaylists
    \/ NextSearch
    \/ NextPlayer
    \/ NextSeek
    \/ NextAuth
    \/ NextDetail

Spec == Init /\ [][Next]_vars

(***************************************************************************)
(* Properties                                                              *)
(***************************************************************************)
InFlightPair(procs) ==
    {p \in InFlight(procs) \X InFlight(procs) : p[1] # p[2]}

(* C1: whenever the session is not a verified one, the liked songs and the *)
(* playlists held locally are both empty, whatever sync or toggleLike      *)
(* completion arrives around the session event.                            *)
C1_UnverifiedLibraryEmpty ==
    ~IsVerified(user) => (likedSongs = <<>> /\ playlists = <<>>)

(* C2: while the session is absent or unverified, toggleLike,              *)
(* createPlaylist, deletePlaylist and addSongToPlaylist send no request    *)
(* to the backend and change neither the liked songs nor the playlists.    *)
C2_UnverifiedMutationsRefused ==
    [][~IsVerified(user) =>
          /\ \A t \in Tracks :
                toggleLike(t) => UNCHANGED <<toggles, likedSongs, playlists>>
          /\ \A name \in PromptResults :
                createNewPlaylist(name) =>
                    UNCHANGED <<creates, likedSongs, playlists>>
          /\ \A id \in PlaylistIds :
                deletePlaylist(id) =>
                    UNCHANGED <<deletes, likedSongs, playlists>>
          /\ \A id \in PlaylistIds, t \in Tracks :
                addSongToPlaylist(id, t) =>
                    UNCHANGED <<adds, likedSongs, playlists>>]_vars

(* C3: once every search request has been answered, the results shown are  *)
(* those of the request dispatched last (the one for the text in the       *)
(* search box), whatever order the answers came in.                        *)
C3_LatestSearchWins ==
    (InFlight(searches) = {} /\ Len(searchQuery) > 2) =>
        searchResults = MapSongs(Catalog(searchQuery))

(* C4: two toggleLike calls for the same url never have their remote       *)
(* read-then-write in flight at the same time.                             *)
C4_SameUrlTogglesSerialized ==
    \A p \in InFlightPair(toggles) :
        Url(toggles[p[1]].song) # Url(toggles[p[2]].song)

(* C5: a toggleLike whose remote write failed leaves the local liked       *)
(* songs as they were and reports the failure.                             *)
C5_FailedWriteLeavesLikedSongs ==
    [][\A i \in 1..MaxToggles :
          (toggles[i].res = "err" /\ ToggleAfterWrite(i)) =>
              (likedSongs' = likedSongs /\ lastAlert' # lastAlert)]_vars

(* C6: the start-playback callback of a track that has been replaced as    *)
(* the current one changes neither the current track, nor the loaded       *)
(* source, nor the playing flag.                                           *)
C6_StaleStartChangesNothing ==
    [][StaleStartRejected =>
          UNCHANGED <<currentSong, audioSrc, isPlaying>>]_vars

(* C7: when playback of the queue entry at position i ends and position    *)
(* i + 1 exists, the entry at i + 1 becomes the current track, also when   *)
(* a url occurs at several positions.                                      *)
C7_EndedAdvancesByPosition ==
    [][\A i \in 1..MaxQueue :
          (/\ i < Len(playlistQueue)
           /\ playlistQueue[i] = currentSong
           /\ handleEnded(TRUE)) => currentSong' = playlistQueue[i + 1]]_vars

(* C8: when playback of the last queue entry ends, playback is marked      *)
(* stopped and the current track and the queue stay as they are.           *)
C8_EndedAtLastStops ==
    [][(/\ Len(playlistQueue) > 0
        /\ playlistQueue[Len(playlistQueue)] = currentSong
        /\ handleEnded(TRUE)) =>
           (/\ isPlaying' = FALSE
            /\ currentSong' = currentSong
            /\ playlistQueue' = playlistQueue)]_vars

RoundTripDone == roundTrip.calls = 2 /\ InFlight(toggles) = {}

InList(t, list) == \E k \in 1..Len(list) : Url(list[k]) = Url(t)

(* C9 as stated: after toggleLike(T) twice, both succeeding, the liked     *)
(* songs are the list there was before the first call, order included.     *)
C9_RoundTripRestoresList ==
    RoundTripDone => likedSongs = roundTrip.before

(* C9: after toggleLike(T) twice, one after the other and both succeeding, *)
(* T is liked exactly if it was before and the other tracks keep their     *)
(* order; a T that was liked ends at the head of the list.                 *)
C9_RoundTripRestoresMembership ==
    RoundTripDone =>
        likedSongs = IF InList(roundTrip.song, roundTrip.before)
                     THEN <<roundTrip.song>>
                              \o FilterOutUrl(roundTrip.before, roundTrip.song)
                     ELSE roundTrip.before

(* A round trip on a liked track that was not at the head of the list *)
C9_RoundTripOnLikedTrack ==
    /\ RoundTripDone
    /\ InList(roundTrip.song, roundTrip.before)
    /\ roundTrip.before[1] # roundTrip.song
    /\ Len(roundTrip.before) = 3

(* C10: a sync shows nothing of what it has fetched before its last fetch  *)
(* has returned: profile, liked songs and playlists change in one step.    *)
C10_SyncPublishesAtOnce ==
    [][\A i \in 1..MaxFetches :
          (\/ FetchAfterGetProfile(i)
           \/ FetchAfterUpsertProfile(i)
           \/ FetchAfterGetLikedSongs(i)) =>
              UNCHANGED <<profile, likedSongs, playlists>>]_vars

(* C11: a session event without a session, or with one whose email is not  *)
(* confirmed, clears liked songs, playlists and profile and sends no sync  *)
(* request; a session event with a verified session starts a sync for it.  *)
C11_SessionEventGate ==
    [][\A session \in Sessions :
          OnAuthStateChange(session) =>
              IF IsVerified(session)
              THEN \E i \in 1..MaxFetches :
                      /\ fetches[i].pc = "idle"
                      /\ fetches'[i].pc = "getProfile"
                      /\ fetches'[i].res = "pending"
                      /\ fetches'[i].user = session
              ELSE /\ likedSongs' = <<>>
                   /\ playlists' = <<>>
                   /\ profile' = 0
                   /\ fetches' = fetches]_vars

(* An unconfirmed session is current, the backend holds liked songs and a  *)
(* profile, nothing of them is shown and no sync is in flight.             *)
C11_UnverifiedSessionCleared ==
    /\ user.id # 0 /\ ~user.confirmed
    /\ remoteLiked # <<>> /\ remotePlaylists # <<>> /\ remoteProfiles # {}
    /\ likedSongs = <<>> /\ playlists = <<>> /\ profile = 0
    /\ InFlight(fetches) = {}

(* C12: toggleLike by a verified user flips the local membership of the    *)
(* track in the step of the call itself, before the remote write is sent.  *)
C12_ToggleLikeOptimistic ==
    [][\A t \in Tracks :
          (IsVerified(user) /\ toggleLike(t)) =>
              (InList(t, likedSongs') # InList(t, likedSongs))]_vars

(* Names that are empty or consist of whitespace only *)
IsBlank(name) == name \in {"", " "}

(* C13: createNewPlaylist by a verified user with an empty or              *)
(* whitespace-only name sends no insert and leaves the playlists as they   *)
(* are.                                                                    *)
C13_BlankNameRejected ==
    [][\A name \in Names :
          (IsVerified(user) /\ IsBlank(name) /\ createNewPlaylist(name)) =>
              UNCHANGED <<creates, playlists>>]_vars

(* C14: the playlists change through createNewPlaylist only once the       *)
(* remote insert has answered: on success the playlist with the id the     *)
(* backend assigned, the given name and no songs is appended at the end;   *)
(* on failure the playlists stay as they are.                              *)
C14_CreateAfterRemoteSuccess ==
    [][/\ \A name \in PromptResults :
             createNewPlaylist(name) => playlists' = playlists
       /\ \A i \in 1..MaxPlaylistCalls, ok \in BOOLEAN :
             ServeCreatePlaylist(i, ok) => playlists' = playlists
       /\ \A i \in 1..MaxPlaylistCalls :
             CreateAfterInsert(i) =>
                 IF creates[i].res = "ok"
                 THEN /\ creates[i].id \in 1..(nextPlaylistId - 1)
                      /\ playlists' = playlists \o
                             <<[id |-> creates[i].id, name |-> creates[i].name,
                                songs |-> <<>>]>>
                 ELSE playlists' = playlists]_vars

(* Two playlists have been created one after the other, and one insert     *)
(* has failed.                                                             *)
C14_TwoCreatedOneFailed ==
    /\ Len(playlists) = 2
    /\ playlists[1].id = 1 /\ playlists[2].id = 2
    /\ playlists[2].songs = <<>>
    /\ lastAlert = "createFailed"
    /\ InFlight(creates) = {}

(* C15: the playlists change through a delete only once the remote delete  *)
(* has answered: on success the playlist with the given id, and no other,  *)
(* leaves the list; on failure the playlists stay as they are.             *)
C15_DeleteAfterRemoteSuccess ==
    [][/\ \A id \in PlaylistIds : deletePlaylist(id) => playlists' = playlists
       /\ \A i \in 1..MaxPlaylistCalls, ok \in BOOLEAN :
             ServeDeletePlaylist(i, ok) => playlists' = playlists
       /\ \A i \in 1..MaxPlaylistCalls :
             DeleteAfter(i) =>
                 IF deletes[i].res = "ok"
                 THEN playlists' = SelectSeq(playlists,
                                             LAMBDA pl : pl.id # deletes[i].id)
                 ELSE playlists' = playlists]_vars

(* Of two playlists the first has been deleted, the second is still there *)
C15_FirstOfTwoDeleted ==
    /\ nextPlaylistId = 3
    /\ Len(playlists) = 1 /\ playlists[1].id = 2
    /\ Len(remotePlaylists) = 1 /\ remotePlaylists[1].id = 2
    /\ InFlight(deletes) = {}

(* C16: when addSongToPlaylist has appended the track remotely, the track  *)
(* is appended at the end of the songs of the local playlist with that id, *)
(* also when the playlist holds the track already.                         *)
C16_AddSongAppendsLocally ==
    [][\A i \in 1..MaxPlaylistCalls :
          (adds[i].res = "ok" /\ AddAfter(i)) =>
              /\ Len(playlists') = Len(playlists)
              /\ \A k \in 1..Len(playlists) :
                    playlists[k].id = adds[i].id =>
                        playlists'[k].songs =
                            Append(playlists[k].songs, adds[i].song)]_vars

C18_PlayAfterFailureLoads ==
    [][\A t \in Tracks, q \in Queues \cup {<<>>} :
          (audioState \in {"error", "ended"} /\ playMusic(t, q)) =>
              (/\ audioSrc' = t
               /\ audioState' = "loading"
               /\ startPending')]_vars

(* C19: togglePlay without a current song changes nothing: the element is  *)
(* not touched, and playing flag, queue, current song and position stay.   *)
C19_TogglePlayWithoutSong ==
    [][\A granted \in BOOLEAN :
          (currentSong = 0 /\ togglePlay(granted)) =>
              UNCHANGED <<isPlaying, playlistQueue, currentSong, progress,
                          currentTime, audioSrc, audioState, audioTime,
                          startPending>>]_vars

(* No song is current (no song has been played yet since the load) and the *)
(* player is as togglePlay leaves it there.                                *)
C19_NoCurrentSong ==
    /\ currentSong = 0 /\ playlistQueue = <<>>
    /\ ENABLED togglePlay(TRUE)
    /\ ~isPlaying /\ audioState = "empty" /\ ~startPending

C22_ShortQueryClearsResults ==
    [][\A value \in Queries :
          (Len(value) < 3 /\ onSearchChange(value)) =>
              (searches' = searches /\ searchResults' = <<>>)]_vars

(* C23: when the fetch of a search has failed, the search is over          *)
(* (isSearching is off) and the results shown are empty.                   *)
C23_FailedSearchShowsNothing ==
    [][\A i \in 1..MaxSearches :
          (searches[i].res = "err" /\ PerformSearchAfter(i)) =>
              (isSearching' = FALSE /\ searchResults' = <<>>)]_vars

(* C24: a sign-up request goes out only if no sign-up has succeeded yet or *)
(* 30 countdown seconds have passed since the last one that did; a failed  *)
(* sign-up leaves the countdown as it is; a submit in sign-in mode always  *)
(* sends its sign-in request.                                              *)
C24_SignUpRateLimit ==
    [][/\ (authCall.pc # "signUp" /\ authCall'.pc = "signUp") =>
              (~signUpHistory.succeeded \/ signUpHistory.ticks >= RateLimit)
       /\ (authCall.res = "err" /\ HandleAuthAfterSignUp) =>
              rateLimitSeconds' = rateLimitSeconds
       /\ \A valid \in BOOLEAN :
              (~isSignUp /\ SubmitClick(valid)) => authCall'.pc = "signIn"]_vars

(* A sign-up has succeeded, and in the middle of the countdown a sign-in   *)
(* request is under way.                                                   *)
C24_SignInDuringCountdown ==
    /\ signUpHistory.succeeded
    /\ rateLimitSeconds > 0 /\ rateLimitSeconds < RateLimit
    /\ signUpHistory.ticks = RateLimit - rateLimitSeconds
    /\ authCall.pc = "signIn"

(* C25: once a sign-up has ended with a user but no session (the           *)
(* registration alert was shown), toggleLike answers with the request to   *)
(* verify the email, and opens no sign-in modal and changes no liked song. *)
C25_ToggleLikeAfterSignUp ==
    [][\A t \in LikeTracks :
          (/\ lastAlert = "registered"
           /\ ~IsVerified(user)
           /\ toggleLike(t)) =>
              (/\ lastAlert' = "verifyLike"
               /\ UNCHANGED <<authModalOpen, likedSongs, toggles>>)]_vars

(* C26: a failed profile write does not block the rest of a sync: when     *)
(* fetchData found no profile row and its upsertProfile has been answered, *)
(* with success or with an error, the sync goes on to load the liked songs.*)
C26_SyncSurvivesProfileWriteFailure ==
    [][\A i \in 1..MaxFetches :
          FetchAfterUpsertProfile(i) => fetches'[i].pc = "getLikedSongs"]_vars

(* C27: once every sync has completed, the library shown is the one of the *)
(* current verified session's user as the backend holds it: no sync that   *)
(* was started for an earlier session has overwritten it.                  *)
C27_LatestSyncWins ==
    (/\ sessionLoaded
     /\ IsVerified(user)
     /\ InFlight(fetches) = {}) =>
        /\ likedSongs = getLikedSongs(user.id)
        /\ playlists = getPlaylists(user.id)
        /\ profile = user.id

(* C28: likedSongs never holds two entries with the same track url, and    *)
(* table liked_songs never holds two rows of one user with the same track  *)
(* url, whatever the interleaving of the toggleLike calls.                 *)
C28_OneEntryPerUrl ==
    /\ \A a, b \in DOMAIN likedSongs :
          a # b => Url(likedSongs[a]) # Url(likedSongs[b])
    /\ \A a, b \in DOMAIN remoteLiked :
          (a # b /\ remoteLiked[a].uid = remoteLiked[b].uid) =>
              Url(remoteLiked[a].song) # Url(remoteLiked[b].song)

(* C29: once no toggleLike call is in flight, likedSongs is the list a     *)
(* fresh sync would load: the liked_songs rows of the user, newest first.  *)
C29_LocalEqualsFreshSync ==
    (IsVerified(user) /\ InFlight(toggles) = {}) =>
        likedSongs = getLikedSongs(user.id)

(* C30: once no audio.play() promise is awaiting its answer, isPlaying is  *)
(* true only while the audio element is actually playing.                  *)
C30_PlayingFlagMatchesElement ==
    (~startPending /\ ~staleRejected) =>
        (isPlaying => audioState = "playing")

(* C31: after playMusic(q[1], q), with no further user action and every    *)
(* track playing to its end, playback eventually stops for good: from some *)
(* point on isPlaying is false and no start is pending.                    *)
C31_QueueEventuallyStops == <>[](~isPlaying /\ ~startPending)

(* C32: isSearching is true exactly while at least one performSearch call  *)
(* has not completed yet.                                                  *)
C32_SearchingWhileOutstanding ==
    isSearching <=> (InFlight(searches) # {})

(* The current contents of the library entry a detail object was opened    *)
(* from: likedSongs, or the songs of the playlist with its id (none once   *)
(* the playlist is gone).                                                  *)
EntryContents(detail) ==
    IF detail.kind = "liked" THEN likedSongs
    ELSE IF \E k \in 1..Len(playlists) : playlists[k].id = detail.id
         THEN playlists[CHOOSE k \in 1..Len(playlists) :
                            playlists[k].id = detail.id].songs
         ELSE <<>>

(* C33: while the playlist-detail view is open, the track list it shows is *)
(* the current contents of the library entry it was opened from.           *)
C33_DetailShowsLibraryEntry ==
    view = "playlist-detail" =>
        currentPlaylistDetail.songs = EntryContents(currentPlaylistDetail)

(* C34: the sign-up countdown stays within 0..30; it changes only by going *)
(* down by exactly one while positive or by being set to 30 from 0 after a *)
(* sign-up; opening or closing the modal while it runs leaves it as it is; *)
(* and with a timer that keeps firing it reaches 0 again, where the submit *)
(* button of an idle sign-up form is enabled.                              *)
C34_CountdownRunsDown ==
    /\ [](rateLimitSeconds \in 0..RateLimit)
    /\ [][rateLimitSeconds' # rateLimitSeconds =>
             \/ rateLimitSeconds > 0 /\ rateLimitSeconds' = rateLimitSeconds - 1
             \/ rateLimitSeconds = 0 /\ rateLimitSeconds' = RateLimit]_vars
    /\ [][(authModalOpen' # authModalOpen /\ rateLimitSeconds > 0) =>
             rateLimitSeconds' = rateLimitSeconds]_vars
    /\ (rateLimitSeconds > 0) ~> (rateLimitSeconds = 0)
    /\ []((authModalOpen /\ isSignUp /\ ~loading /\ rateLimitSeconds = 0) =>
             ENABLED SubmitClick(TRUE))

C34_CountdownOverModalReopened ==
    /\ signUpHistory.succeeded
    /\ signUpHistory.ticks = RateLimit
    /\ rateLimitSeconds = 0
    /\ authModalOpen /\ isSignUp

=============================================================================
